---- MODULE Spec2Model ----
(***************************************************************************)
(* Voice-control / dictation agent: the command-dispatch state machine of  *)
(* CommandProcessor (src/src/command_processor.py) and the voice-activity  *)
(* segmenter of VoiceRecognizer (src/src/voice_recognition.py).            *)
(*                                                                         *)
(* Texts are TLA+ strings; every string operation of the code (strip,      *)
(* lower, split, join, `in`, the regular expressions) is computed          *)
(* character by character.                                                 *)
(***************************************************************************)
EXTENDS Integers, Sequences, FiniteSets, TLC

(***************************************************************************)
(* Python string primitives                                                *)
(***************************************************************************)
Char(s, i) == SubSeq(s, i, i)

Whitespace == {" ", "\t", "\n"}

\* str.lower() on one character: the upper-case letters and what each folds to
LowerOf == [
    A |-> "a", B |-> "b", C |-> "c", D |-> "d", E |-> "e", F |-> "f", G |-> "g",
    H |-> "h", I |-> "i", J |-> "j", K |-> "k", L |-> "l", M |-> "m", N |-> "n",
    O |-> "o", P |-> "p", Q |-> "q", R |-> "r", S |-> "s", T |-> "t", U |-> "u",
    V |-> "v", W |-> "w", X |-> "x", Y |-> "y", Z |-> "z"
]

DigitChars == {"0", "1", "2", "3", "4", "5", "6", "7", "8", "9"}

IsDigit(c) == c \in DigitChars

\* \w of the re module on the characters the model uses: [a-zA-Z0-9_]
WordChars == {
    "a", "b", "c", "d", "e", "f", "g", "h", "i", "j", "k", "l", "m", "n", "o", "p",
    "q", "r", "s", "t", "u", "v", "w", "x", "y", "z", "A", "B", "C", "D", "E", "F",
    "G", "H", "I", "J", "K", "L", "M", "N", "O", "P", "Q", "R", "S", "T", "U", "V",
    "W", "X", "Y", "Z", "0", "1", "2", "3", "4", "5", "6", "7", "8", "9", "_"
}

IsWordChar(c) == c \in WordChars

LowerChar(c) == IF c \in DOMAIN LowerOf THEN LowerOf[c] ELSE c

RECURSIVE Lower(_)
\* str.lower()
Lower(s) == IF s = "" THEN "" ELSE LowerChar(Head(s)) \o Lower(Tail(s))

RECURSIVE LStrip(_)
LStrip(s) == IF s # "" /\ Head(s) \in Whitespace THEN LStrip(Tail(s)) ELSE s

RECURSIVE RStrip(_)
RStrip(s) ==
    IF s # "" /\ Char(s, Len(s)) \in Whitespace THEN RStrip(SubSeq(s, 1, Len(s) - 1)) ELSE s

\* str.strip()
Strip(s) == RStrip(LStrip(s))

RECURSIVE RStripDot(_)
\* str.rstrip('.')
RStripDot(s) ==
    IF s # "" /\ Char(s, Len(s)) = "." THEN RStripDot(SubSeq(s, 1, Len(s) - 1)) ELSE s

StartsWithAt(t, p, i) == i + Len(p) - 1 <= Len(t) /\ SubSeq(t, i, i + Len(p) - 1) = p

EndsWith(t, p) == Len(p) <= Len(t) /\ SubSeq(t, Len(t) - Len(p) + 1, Len(t)) = p

\* `p in t` on strings
Contains(t, p) == \E i \in 1..(Len(t) - Len(p) + 1) : StartsWithAt(t, p, i)

RECURSIVE SplitFrom(_, _, _)
\* words of t from position i on, cur being the word under construction
SplitFrom(t, i, cur) ==
    IF i > Len(t) THEN (IF cur = "" THEN <<>> ELSE <<cur>>)
    ELSE IF Char(t, i) \in Whitespace
         THEN (IF cur = "" THEN <<>> ELSE <<cur>>) \o SplitFrom(t, i + 1, "")
         ELSE SplitFrom(t, i + 1, cur \o Char(t, i))

\* str.split() with no separator: runs of whitespace separate, no empty words
Split(t) == SplitFrom(t, 1, "")

RECURSIVE Join(_)
\* " ".join(words)
Join(words) ==
    IF words = <<>> THEN ""
    ELSE IF Len(words) = 1 THEN words[1]
    ELSE words[1] \o " " \o Join(Tail(words))

(***************************************************************************)
(* re.search for the capture patterns of the registry.  The registry's     *)
(* capture patterns all have the shape <literal>(\w+) or <literal>(.+);    *)
(* the search is leftmost, the group greedy, and re.IGNORECASE folds case. *)
(***************************************************************************)
NoMatch == [matched |-> FALSE, groups |-> <<>>]

WordGroup == "(\\w+)"

DotGroup == "(.+)"

\* the literal text in front of the capture group
PatternPrefix(pattern) ==
    IF EndsWith(pattern, WordGroup) THEN SubSeq(pattern, 1, Len(pattern) - Len(WordGroup))
    ELSE SubSeq(pattern, 1, Len(pattern) - Len(DotGroup))

\* may the group's first character be c
GroupChar(pattern, c) ==
    IF EndsWith(pattern, WordGroup) THEN IsWordChar(c) ELSE c # "\n"

RECURSIVE GreedyEnd(_, _, _)
\* last position of the maximal run of group characters that starts at j
GreedyEnd(pattern, text, j) ==
    IF j + 1 <= Len(text) /\ GroupChar(pattern, Char(text, j + 1))
    THEN GreedyEnd(pattern, text, j + 1)
    ELSE j

Least(S) == CHOOSE i \in S : \A k \in S : i <= k

\* the group of the leftmost match, Starts being the positions where one starts
\* and n the length of the literal in front of the group
RegexGroups(pattern, text, n, Starts) ==
    IF Starts = {} THEN NoMatch
    ELSE [matched |-> TRUE,
          groups |-> <<SubSeq(text, Least(Starts) + n,
                              GreedyEnd(pattern, text, Least(Starts) + n))>>]

\* pre is the case-folded literal, lt the case-folded text
RegexSearchFolded(pattern, text, pre, lt) ==
    RegexGroups(pattern, text, Len(pre),
                {i \in 1..Len(text) :
                    /\ StartsWithAt(lt, pre, i)
                    /\ i + Len(pre) <= Len(text)
                    /\ GroupChar(pattern, Char(text, i + Len(pre)))})

RegexSearch(pattern, text) ==
    IF ~(EndsWith(pattern, WordGroup) \/ EndsWith(pattern, DotGroup)) THEN NoMatch
    ELSE RegexSearchFolded(pattern, text, Lower(PatternPrefix(pattern)), Lower(text))

(***************************************************************************)
(* Wake words                                                              *)
(***************************************************************************)
\* positions (0-based, as range() yields them) where parts occur as a run of whole words
WakePositions(text_words, parts) ==
    {i \in 0..(Len(text_words) - Len(parts)) :
        SubSeq(text_words, i + 1, i + Len(parts)) = parts}

\* a faulty variant of _has_wake_word: `wake_word in text`
_has_wake_word_substring(wake_words, text) ==
    \E k \in 1..Len(wake_words) : Contains(text, wake_words[k])

_has_wake_word(wake_words, text) ==
    \E k \in 1..Len(wake_words) : WakePositions(Split(text), Split(wake_words[k])) # {}

\* text_words[:i] + text_words[i+n:]
CutWords(text_words, i, n) ==
    SubSeq(text_words, 1, i) \o SubSeq(text_words, i + n + 1, Len(text_words))

\* one pass of the inner loop: the first run of parts is removed, if there is one
RemoveFirst(text_words, parts, pos) ==
    IF pos = {} THEN text_words ELSE CutWords(text_words, Least(pos), Len(parts))

RemoveOne(text_words, parts) ==
    RemoveFirst(text_words, parts, WakePositions(text_words, parts))

RECURSIVE RemoveFrom(_, _, _)
\* the loop over self.wake_words, from the k-th wake word on
RemoveFrom(wake_words, k, text_words) ==
    IF k > Len(wake_words) THEN text_words
    ELSE RemoveFrom(wake_words, k + 1, RemoveOne(text_words, Split(wake_words[k])))

_remove_wake_words(wake_words, text) == Strip(Join(RemoveFrom(wake_words, 1, Split(text))))

(***************************************************************************)
(* Configuration defaults                                                  *)
(***************************************************************************)
DefaultWakeWords == <<"activate", "computer", "hey assistant">>

DefaultStopDictation == <<"stop dictation", "end dictation">>

DefaultStartDictation == <<"start dictation", "begin dictation">>

(***************************************************************************)
(* The command registry.  A handler is a record naming the callable; `co`  *)
(* says whether asyncio.iscoroutinefunction holds of it, `arity` how many  *)
(* positional arguments it accepts, `data` what it closes over.            *)
(***************************************************************************)
Method(name, arity) == [kind |-> name, co |-> TRUE, arity |-> arity, data |-> ""]

\* lambda: self.keystroke_manager.send_key_combination(combo) -- a plain function
\* whose call returns the coroutine of an async method
Lambda(combo) == [kind |-> "lambda", co |-> FALSE, arity |-> 0, data |-> combo]

Command(name, patterns, handler, category) ==
    [name |-> name, patterns |-> patterns, handler |-> handler, category |-> category]

\* a faulty variant of _register_command: the registry kept as a list, appended to
_register_command_appending(commands, command) == Append(commands, command)

\* self.commands[command.name] = command on an insertion-ordered dict: a new name
\* is appended, an existing name keeps its place and takes the new value
_register_command(commands, command) ==
    IF \E i \in 1..Len(commands) : commands[i].name = command.name
    THEN [i \in 1..Len(commands) |->
             IF commands[i].name = command.name THEN command ELSE commands[i]]
    ELSE Append(commands, command)

RECURSIVE RegisterAll(_, _)
RegisterAll(commands, new) ==
    IF new = <<>> THEN commands
    ELSE RegisterAll(_register_command(commands, Head(new)), Tail(new))

\* the registrations of _register_default_commands, in source order
DefaultRegistrations(start_words, stop_words) == <<
    Command("start_dictation", start_words \o <<"dictation mode", "start typing">>,
            Method("_start_dictation", 0), "dictation"),
    Command("stop_dictation", stop_words \o <<"dictation off", "stop typing">>,
            Method("_stop_dictation", 0), "dictation"),
    Command("open_application", <<"open (\\w+)", "launch (\\w+)", "start (\\w+)">>,
            Method("_open_application", 1), "applications"),
    Command("close_application", <<"close (\\w+)", "quit (\\w+)", "exit (\\w+)">>,
            Method("_close_application", 1), "applications"),
    Command("open_website", <<"open website (.+)", "go to (.+)", "browse (.+)", "visit (.+)">>,
            Method("_open_website", 1), "browser"),
    Command("search_web", <<"search for (.+)", "google (.+)", "look up (.+)">>,
            Method("_search_web", 1), "browser"),
    Command("switch_window", <<"switch to (.+)", "focus (.+)", "show (.+)">>,
            Method("_switch_window", 1), "windows"),
    Command("minimize_window", <<"minimize", "minimize window">>,
            Method("_minimize_window", 0), "windows"),
    Command("maximize_window", <<"maximize", "maximize window">>,
            Method("_maximize_window", 0), "windows"),
    Command("copy", <<"copy", "copy text">>, Lambda("ctrl+c"), "shortcuts"),
    Command("paste", <<"paste", "paste text">>, Lambda("ctrl+v"), "shortcuts"),
    Command("cut", <<"cut", "cut text">>, Lambda("ctrl+x"), "shortcuts"),
    Command("undo", <<"undo", "undo that">>, Lambda("ctrl+z"), "shortcuts"),
    Command("redo", <<"redo", "redo that">>, Lambda("ctrl+y"), "shortcuts"),
    Command("select_all", <<"select all", "select everything">>, Lambda("ctrl+a"), "shortcuts"),
    Command("type_text", <<"type (.+)", "write (.+)", "input (.+)">>,
            Method("_type_text", 1), "text"),
    Command("new_tab", <<"new tab", "open tab">>, Lambda("ctrl+t"), "navigation"),
    Command("close_tab", <<"close tab">>, Lambda("ctrl+w"), "navigation"),
    Command("next_tab", <<"next tab", "switch tab">>, Lambda("ctrl+tab"), "navigation"),
    Command("lock_screen", <<"lock screen", "lock computer">>,
            Method("_lock_screen", 0), "system"),
    Command("help", <<"help", "show commands", "what can you do">>,
            Method("_show_help", 0), "help"),
    Command("status", <<"status", "current mode">>, Method("_show_status", 0), "help"),
    Command("type_text", <<"type (.+)", "write (.+)", "input (.+)">>,
            Method("_type_text", 1), "input"),
    Command("press_key", <<"press (.+)", "hit (.+)", "key (.+)">>,
            Method("_press_key", 1), "input")
>>

_register_default_commands(start_words, stop_words) ==
    RegisterAll(<<>>, DefaultRegistrations(start_words, stop_words))

\* _create_custom_handler: the handler of one entry of commands.custom
_create_custom_handler(cmd_data) ==
    IF cmd_data.type = "keystroke"
    THEN [kind |-> "custom_keystroke", co |-> TRUE, arity |-> 0, data |-> cmd_data.action]
    ELSE IF cmd_data.type = "type"
    THEN [kind |-> "custom_type", co |-> TRUE, arity |-> 0, data |-> cmd_data.action]
    ELSE IF cmd_data.type = "command"
    THEN [kind |-> "custom_command", co |-> FALSE, arity |-> 0, data |-> cmd_data.action]
    ELSE [kind |-> "custom_unknown", co |-> FALSE, arity |-> 0, data |-> cmd_data.type]

RECURSIVE CustomRegistrations(_)
CustomRegistrations(custom) ==
    IF custom = <<>> THEN <<>>
    ELSE <<Command(Head(custom).name, Head(custom).patterns,
                   _create_custom_handler(Head(custom)), Head(custom).category)>>
         \o CustomRegistrations(Tail(custom))

\* _load_custom_commands: commands.custom in the order of the configuration file
_load_custom_commands(commands, custom) == RegisterAll(commands, CustomRegistrations(custom))

\* the registry CommandProcessor.__init__ builds
InitialRegistry(start_words, stop_words, custom) ==
    _load_custom_commands(_register_default_commands(start_words, stop_words), custom)

(***************************************************************************)
(* KeystrokeSink requests, as CommandProcessor issues them                 *)
(***************************************************************************)
TypeText(text) == [op |-> "type_text", arg |-> text, modifiers |-> <<>>]

SendKey(key, modifiers) == [op |-> "send_key", arg |-> key, modifiers |-> modifiers]

SendKeyCombination(combination) ==
    [op |-> "send_key_combination", arg |-> combination, modifiers |-> <<>>]

FocusWindow(title) == [op |-> "focus_window", arg |-> title, modifiers |-> <<>>]

(***************************************************************************)
(* What running a handler does: the mode it sets ("keep" when none), the   *)
(* sink request it issues (`calls`, empty when the request raised or none  *)
(* is made), whether an exception leaves the handler, and the errors the   *)
(* handler logs itself.  `fail` says that the sink request the handler     *)
(* makes raises.                                                           *)
(***************************************************************************)
Effect(mode, calls, raised, errors) ==
    [mode |-> mode, calls |-> calls, raised |-> raised, errors |-> errors]

NoEffect == Effect("keep", <<>>, FALSE, 0)

\* a sink request whose exception the handler lets escape
Escaping(call, fail) ==
    IF fail THEN Effect("keep", <<>>, TRUE, 0) ELSE Effect("keep", <<call>>, FALSE, 0)

\* a sink request inside the handler's own try/except, which logs the error
Guarded(call, fail) ==
    IF fail THEN Effect("keep", <<>>, FALSE, 1) ELSE Effect("keep", <<call>>, FALSE, 0)

\* focus_window returns False instead of raising, and _switch_window logs a warning
_switch_window(window_name, fail) ==
    IF fail THEN NoEffect ELSE Effect("keep", <<FocusWindow(window_name)>>, FALSE, 0)

\* main_key = parts[-1], modifiers = parts[:-1]
KeyWithModifiers(parts) == SendKey(parts[Len(parts)], SubSeq(parts, 1, Len(parts) - 1))

_press_key(key, fail) ==
    IF Contains(key, " ")
    THEN Guarded(KeyWithModifiers(Split(key)), fail)
    ELSE Guarded(SendKey(key, <<>>), fail)

_minimize_window(system, fail) ==
    Escaping(SendKeyCombination(IF system = "windows" THEN "win+down" ELSE "ctrl+alt+9"), fail)

_maximize_window(system, fail) ==
    Escaping(SendKeyCombination(IF system = "windows" THEN "win+up" ELSE "ctrl+alt+0"), fail)

_lock_screen(system, fail) ==
    IF system = "windows" THEN Guarded(SendKeyCombination("win+l"), fail) ELSE NoEffect

\* the body of handler h on arguments args
HandlerBody(h, args, fail, system) ==
    CASE h.kind = "_start_dictation" -> Effect("on", <<>>, FALSE, 0)
      [] h.kind = "_stop_dictation" -> Effect("off", <<>>, FALSE, 0)
      [] h.kind = "_switch_window" -> _switch_window(args[1], fail)
      [] h.kind = "_minimize_window" -> _minimize_window(system, fail)
      [] h.kind = "_maximize_window" -> _maximize_window(system, fail)
      [] h.kind = "_lock_screen" -> _lock_screen(system, fail)
      [] h.kind = "_type_text" -> Guarded(TypeText(args[1]), fail)
      [] h.kind = "_press_key" -> _press_key(args[1], fail)
      [] h.kind = "lambda" -> Escaping(SendKeyCombination(h.data), fail)
      [] h.kind = "custom_keystroke" -> Escaping(SendKeyCombination(h.data), fail)
      [] h.kind = "custom_type" -> Escaping(TypeText(h.data), fail)
      [] OTHER -> NoEffect

\* the call in _execute_command: a coroutine function is awaited; anything else
\* runs in the executor, and a coroutine it returns is never awaited
CallFromRegistry(h, args, fail, system) ==
    IF Len(args) # h.arity THEN Effect("keep", <<>>, TRUE, 0)
    ELSE IF h.co THEN HandlerBody(h, args, fail, system)
    ELSE IF h.kind = "lambda" THEN NoEffect
    ELSE HandlerBody(h, args, fail, system)

\* the call in _check_custom_commands_in_dictation: no arguments, and a coroutine
\* returned by a plain function is awaited
CallFromDictation(h, fail, system) ==
    IF h.arity # 0 THEN Effect("keep", <<>>, TRUE, 0)
    ELSE HandlerBody(h, <<>>, fail, system)

(***************************************************************************)
(* _execute_command: first (command, pattern) in registry order that       *)
(* matches; a pattern holding "(" is searched as a regular expression,     *)
(* any other is tested with `pattern in text`.                             *)
(***************************************************************************)
IsRegex(pattern) == Contains(pattern, "(")

PatternMatch(pattern, text) ==
    IF IsRegex(pattern) THEN RegexSearch(pattern, text)
    ELSE [matched |-> Contains(text, pattern), groups |-> <<>>]

NoHit == [found |-> FALSE, c |-> 0, p |-> 0, groups |-> <<>>]

RegistryHit(commands, text, c, p) == PatternMatch(commands[c].patterns[p], text).matched

FirstPattern(commands, text, c) ==
    Least({p \in 1..Len(commands[c].patterns) : RegistryHit(commands, text, c, p)})

HitAt(commands, text, c, p) ==
    [found |-> TRUE, c |-> c, p |-> p,
     groups |-> PatternMatch(commands[c].patterns[p], text).groups]

\* a faulty variant of the scan: the last command that matches is taken
LastHit(commands, text, Cs) ==
    IF Cs = {} THEN NoHit
    ELSE LET c == CHOOSE i \in Cs : \A k \in Cs : k <= i
         IN  HitAt(commands, text, c, FirstPattern(commands, text, c))

FirstHit(commands, text, Cs) ==
    IF Cs = {} THEN NoHit
    ELSE HitAt(commands, text, Least(Cs), FirstPattern(commands, text, Least(Cs)))

\* the nested loops `for command in self.commands.values(): for pattern in
\* command.patterns` stop at the first pattern that matches: the first matching
\* pattern of the first command that has one
ScanRegistry(commands, text) ==
    FirstHit(commands, text,
             {c \in 1..Len(commands) :
                 \E p \in 1..Len(commands[c].patterns) : RegistryHit(commands, text, c, p)})

Ran(command, args) == [name |-> command.name, args |-> args]

\* what a matched command's execution leaves: the value returned, the handler
\* invoked, the mode set, the sink requests made, the errors logged
Executed(command, args, e) ==
    [executed |-> ~e.raised, ran |-> <<Ran(command, args)>>, mode |-> e.mode,
     calls |-> e.calls, errors |-> e.errors + (IF e.raised THEN 1 ELSE 0)]

NotExecuted == [executed |-> FALSE, ran |-> <<>>, mode |-> "keep", calls |-> <<>>, errors |-> 0]

ExecuteHit(commands, hit, fail, system) ==
    IF ~hit.found THEN NotExecuted
    ELSE Executed(commands[hit.c], hit.groups,
                  CallFromRegistry(commands[hit.c].handler, hit.groups, fail, system))

_execute_command(commands, text, fail, system) ==
    ExecuteHit(commands, ScanRegistry(commands, text), fail, system)

(***************************************************************************)
(* _check_press_key_commands: the key-directive grammar of dictation mode. *)
(* Each pattern is  [^] head [ (alt|alt|..) " " ] group tail \.? $  where  *)
(* group is the lazy (.+?) or, for the direct patterns, the closed         *)
(* alternation of named keys.                                              *)
(***************************************************************************)
NamedKeys == {"enter", "tab", "space", "escape", "backspace", "delete", "home", "end",
              "up", "down", "left", "right", "page up", "page down"}

KeyPattern(src, anchored, head, alts, named, tail) ==
    [src |-> src, anchored |-> anchored, head |-> head, alts |-> alts,
     named |-> named, tail |-> tail]

NamedAlternation ==
    "(enter|tab|space|escape|backspace|delete|home|end|up|down|left|right|page up|page down|f\\d+)"

press_key_patterns == <<
    KeyPattern("press key (.+?)\\.?$", FALSE, "press key ", <<>>, FALSE, ""),
    KeyPattern("press (.+?) key\\.?$", FALSE, "press ", <<>>, FALSE, " key"),
    KeyPattern("hit key (.+?)\\.?$", FALSE, "hit key ", <<>>, FALSE, ""),
    KeyPattern("hit (.+?) key\\.?$", FALSE, "hit ", <<>>, FALSE, " key"),
    KeyPattern("^key (.+?)\\.?$", TRUE, "key ", <<>>, FALSE, ""),
    KeyPattern("^press " \o NamedAlternation \o "\\.?$", TRUE, "press ", <<>>, TRUE, ""),
    KeyPattern("^hit " \o NamedAlternation \o "\\.?$", TRUE, "hit ", <<>>, TRUE, ""),
    KeyPattern("press (ctrl|shift|alt) (.+?)\\.?$", FALSE, "press ",
               <<"ctrl", "shift", "alt">>, FALSE, ""),
    KeyPattern("hit (ctrl|shift|alt) (.+?)\\.?$", FALSE, "hit ",
               <<"ctrl", "shift", "alt">>, FALSE, "")
>>

AllDigits(s) == s # "" /\ \A i \in 1..Len(s) : IsDigit(Char(s, i))

\* f\d+
IsFunctionKey(s) == Len(s) >= 2 /\ Head(s) = "f" /\ AllDigits(Tail(s))

\* may g be what the group of pat matches
GroupOk(pat, g) ==
    IF pat.named THEN g \in NamedKeys \/ IsFunctionKey(g)
    ELSE g # "" /\ ~Contains(g, "\n")

\* the text the group takes when rest must be  group tail \.? $ ; "" when
\* there is no such non-empty group.  The lazy (.+?) takes the shortest: short
\* leaves the optional period to \.?, long takes all up to the tail.
ShortestGroup(pat, rest, short, long) ==
    IF EndsWith(rest, pat.tail \o ".") /\ short >= 1 /\ GroupOk(pat, SubSeq(rest, 1, short))
    THEN SubSeq(rest, 1, short)
    ELSE IF EndsWith(rest, pat.tail) /\ long >= 1 /\ GroupOk(pat, SubSeq(rest, 1, long))
    THEN SubSeq(rest, 1, long)
    ELSE ""

\* a faulty variant of the group: the patterns end in $ without the optional period
GroupOfNoPeriod(pat, rest) ==
    ShortestGroup(pat, rest, 0, Len(rest) - Len(pat.tail))

GroupOf(pat, rest) ==
    ShortestGroup(pat, rest, Len(rest) - Len(pat.tail) - 1, Len(rest) - Len(pat.tail))

\* the group of pat on the text from position j on
GroupFrom(pat, text, j) == GroupOf(pat, SubSeq(text, j, Len(text)))

\* (ctrl|shift|alt) at position j, a blank, and the group: A holds the
\* alternatives that match there
ModifierGroups(pat, text, j, A) ==
    IF A = {} THEN <<>>
    ELSE <<pat.alts[Least(A)], GroupFrom(pat, text, j + Len(pat.alts[Least(A)]) + 1)>>

PlainGroups(g) == IF g = "" THEN <<>> ELSE <<g>>

\* the match of pat whose literal head has ended before position j
KeyMatchAfterHead(pat, text, j) ==
    IF pat.alts = <<>> THEN PlainGroups(GroupFrom(pat, text, j))
    ELSE ModifierGroups(pat, text, j,
                        {a \in 1..Len(pat.alts) :
                            /\ StartsWithAt(text, pat.alts[a] \o " ", j)
                            /\ GroupFrom(pat, text, j + Len(pat.alts[a]) + 1) # ""})

\* the match of pat that starts at position i: its groups, <<>> when none
KeyMatchAt(pat, text, i) ==
    IF ~StartsWithAt(text, pat.head, i) THEN <<>>
    ELSE KeyMatchAfterHead(pat, text, i + Len(pat.head))

LeftmostKeyMatch(pat, text, Starts) ==
    IF Starts = {} THEN <<>> ELSE KeyMatchAt(pat, text, Least(Starts))

\* re.search(pattern, text_lower): the leftmost match
KeySearch(pat, text) ==
    LeftmostKeyMatch(pat, text,
                     {i \in 1..(IF pat.anchored THEN 1 ELSE Len(text)) :
                         KeyMatchAt(pat, text, i) # <<>>})

\* the key name taken from a match
KeyName(pat, groups) ==
    IF Contains(pat.src, "ctrl") \/ Contains(pat.src, "shift") \/ Contains(pat.src, "alt")
    THEN IF Len(groups) = 2
         THEN Strip(groups[1]) \o " " \o RStripDot(Strip(groups[2]))
         ELSE RStripDot(Strip(groups[1]))
    ELSE RStripDot(Strip(groups[1]))

\* the patterns that match text, by their place in press_key_patterns
MatchingKeyPatterns(text) ==
    {k \in 1..Len(press_key_patterns) : KeySearch(press_key_patterns[k], text) # <<>>}

FirstKeyPattern(text, Ks) ==
    IF Ks = {} THEN [matched |-> FALSE, key_name |-> ""]
    ELSE [matched |-> TRUE,
          key_name |-> KeyName(press_key_patterns[Least(Ks)],
                               KeySearch(press_key_patterns[Least(Ks)], text))]

\* the loop over press_key_patterns stops at the first pattern that matches
ScanKeyPatterns(text) == FirstKeyPattern(text, MatchingKeyPatterns(text))

KeyPressed(m, fail) ==
    IF m.matched
    THEN [executed |-> TRUE, key_name |-> m.key_name,
          calls |-> _press_key(m.key_name, fail).calls,
          errors |-> _press_key(m.key_name, fail).errors]
    ELSE [executed |-> FALSE, key_name |-> "", calls |-> <<>>, errors |-> 0]

_check_press_key_commands(text, fail) == KeyPressed(ScanKeyPatterns(Strip(Lower(text))), fail)

(***************************************************************************)
(* _check_custom_commands_in_dictation                                     *)
(***************************************************************************)
\* a faulty variant of the category filter: the category "general" passes too
DictationCategoriesAndGeneral == {"custom", "dictation", "general"}

DictationCategories == {"custom", "dictation"}

\* pattern_lower == text_lower or pattern_lower in text_lower
DictationPatternMatch(pattern, text_lower) ==
    Lower(pattern) = text_lower \/ Contains(text_lower, Lower(pattern))

CustomHit(commands, text_lower, c, p) ==
    DictationPatternMatch(commands[c].patterns[p], text_lower)

FirstCustomHit(commands, text_lower, Cs) ==
    IF Cs = {} THEN NoHit
    ELSE [found |-> TRUE, c |-> Least(Cs),
          p |-> Least({q \in 1..Len(commands[Least(Cs)].patterns) :
                          CustomHit(commands, text_lower, Least(Cs), q)}),
          groups |-> <<>>]

\* the loops over the registry, skipping the other categories, stop at the first
\* pattern that matches
ScanCustom(commands, text_lower) ==
    FirstCustomHit(commands, text_lower,
                   {c \in 1..Len(commands) :
                       /\ commands[c].category \in DictationCategories
                       /\ \E p \in 1..Len(commands[c].patterns) :
                              CustomHit(commands, text_lower, c, p)})

ExecuteCustomHit(commands, hit, fail, system) ==
    IF ~hit.found THEN NotExecuted
    ELSE Executed(commands[hit.c], <<>>,
                  CallFromDictation(commands[hit.c].handler, fail, system))

_check_custom_commands_in_dictation(commands, text, fail, system) ==
    ExecuteCustomHit(commands, ScanCustom(commands, Strip(Lower(text))), fail, system)

(***************************************************************************)
(* process_command.  `fails[n]` says that the n-th KeystrokeSink request   *)
(* of this call raises.  The result names the branch taken (`outcome`),    *)
(* the mode afterwards, the sink requests that were carried out, the       *)
(* handlers invoked, the errors logged, and whether an exception leaves    *)
(* process_command.                                                        *)
(***************************************************************************)
Result(text, before, outcome, mode, calls, ran, errors, raised, command_text) ==
    [text |-> text, before |-> before, outcome |-> outcome, mode |-> mode,
     calls |-> calls, ran |-> ran, errors |-> errors, raised |-> raised,
     command_text |-> command_text]

\* a faulty variant of _start_dictation: the flag is flipped instead of set
NewModeFlipped(mode, set) == IF set = "on" THEN ~mode ELSE IF set = "off" THEN FALSE ELSE mode

NewMode(mode, set) == IF set = "on" THEN TRUE ELSE IF set = "off" THEN FALSE ELSE mode

AnyStopWord(stop_words, text) == \E k \in 1..Len(stop_words) : Contains(text, stop_words[k])

\* self.keystroke_manager.type_text(text + " "), outside any try: it is the
\* second sink request of the call when a custom handler has raised before it
TypeAsDictation(text, fails, custom) ==
    IF fails[IF custom.ran # <<>> THEN 2 ELSE 1]
    THEN Result(text, TRUE, "typed", TRUE, <<>>, custom.ran, custom.errors, TRUE, "")
    ELSE Result(text, TRUE, "typed", TRUE, <<TypeText(text \o " ")>>, custom.ran,
                custom.errors, FALSE, "")

\* from `if custom_command_executed:` on
AfterCustomCheck(text, fails, custom) ==
    IF custom.executed
    THEN Result(text, TRUE, "custom", NewMode(TRUE, custom.mode), custom.calls,
                custom.ran, custom.errors, FALSE, "")
    ELSE TypeAsDictation(text, fails, custom)

\* from `if key_command_executed:` on
AfterKeyCheck(cfg, commands, text, fails, key) ==
    IF key.executed
    THEN Result(text, TRUE, "key", TRUE, key.calls, <<>>, key.errors, FALSE, "")
    ELSE AfterCustomCheck(text, fails,
             _check_custom_commands_in_dictation(commands, text, fails[1], cfg.system))

\* a faulty variant of the dictation branch: the stop phrases are not looked for
\* before the key directives and the custom commands
ProcessDictationStopLast(cfg, commands, text, fails) ==
    AfterKeyCheck(cfg, commands, text, fails, _check_press_key_commands(text, fails[1]))

\* the dictation branch
ProcessDictation(cfg, commands, text, fails) ==
    IF AnyStopWord(cfg.stop_dictation_words, text)
    THEN Result(text, TRUE, "stop", FALSE, <<>>, <<>>, 0, FALSE, "")
    ELSE AfterKeyCheck(cfg, commands, text, fails, _check_press_key_commands(text, fails[1]))

\* a faulty variant of the end of process_command: text no command matched is
\* typed
AfterExecuteTyping(text, command_text, r) ==
    Result(text, FALSE,
           IF r.executed THEN "command" ELSE IF r.ran # <<>> THEN "failed" ELSE "no_match",
           NewMode(FALSE, r.mode),
           IF r.executed THEN r.calls ELSE <<TypeText(command_text \o " ")>>,
           r.ran, r.errors, FALSE, command_text)

\* a faulty variant of the end of process_command: text no command matched turns
\* dictation on
AfterExecuteEnteringDictation(text, command_text, r) ==
    Result(text, FALSE,
           IF r.executed THEN "command" ELSE IF r.ran # <<>> THEN "failed" ELSE "no_match",
           IF r.ran = <<>> THEN TRUE ELSE NewMode(FALSE, r.mode),
           r.calls, r.ran, r.errors, FALSE, command_text)

\* from `if not command_executed:` on; nothing is typed either way
AfterExecute(text, command_text, r) ==
    Result(text, FALSE,
           IF r.executed THEN "command" ELSE IF r.ran # <<>> THEN "failed" ELSE "no_match",
           NewMode(FALSE, r.mode), r.calls, r.ran, r.errors, FALSE, command_text)

ExecuteCommandText(cfg, commands, text, fails, command_text) ==
    AfterExecute(text, command_text,
                 _execute_command(commands, command_text, fails[1], cfg.system))

\* the command branch
ProcessWake(cfg, commands, text, fails) ==
    IF ~_has_wake_word(cfg.wake_words, text)
    THEN Result(text, FALSE, "ignored", FALSE, <<>>, <<>>, 0, FALSE, "")
    ELSE ExecuteCommandText(cfg, commands, text, fails,
                            _remove_wake_words(cfg.wake_words, text))

\* process_command once text = text.strip().lower()
ProcessText(cfg, commands, dictation_mode, text, fails) ==
    IF text = ""
    THEN Result(text, dictation_mode, "empty", dictation_mode, <<>>, <<>>, 0, FALSE, "")
    ELSE IF dictation_mode THEN ProcessDictation(cfg, commands, text, fails)
    ELSE ProcessWake(cfg, commands, text, fails)

process_command(cfg, commands, dictation_mode, raw, fails) ==
    ProcessText(cfg, commands, dictation_mode, Lower(Strip(raw)), fails)

(***************************************************************************)
(* The program state: one CommandProcessor, fed utterances by its driver   *)
(* (a CLI loop of main.py or the GUI's recognition loop) and toggled by    *)
(* the GUI's dictation button; and one VoiceRecognizer capturing audio.    *)
(***************************************************************************)
VARIABLES
    cfg,             \* the configuration read by CommandProcessor.__init__, and the platform
    commands,        \* self.commands, in insertion order
    dictation_mode,  \* self.dictation_mode
    driver,          \* the loop that feeds process_command
    running,         \* that loop has not been left by an exception
    respond,         \* process_command of this processor, tabulated over its inputs
    sink_fails,      \* which sink requests of the latest call raised
    last,            \* what the latest process_command call did
    repeated,        \* the latest call had the same text as the call before it
    audio,           \* the audio settings read by VoiceRecognizer.__init__
    pc,              \* where the recognizer's consumer is
    stream_active,   \* the capture stream is open and calls _audio_callback
    is_recording,    \* self.is_recording
    audio_queue,     \* self.audio_queue
    audio_frames,    \* _record_audio_segment's audio_frames
    silence_frames,  \* its silence_frames
    speaking_started,\* its speaking_started
    arrived,         \* frames the capture device has delivered so far
    consumed,        \* frames this capture has taken from the queue
    result,          \* what the latest _record_audio_segment returned
    emitted,         \* the utterances handed to transcription, in order
    sessions,        \* captures started so far
    pending,         \* the frame the capture thread holds between its test and its put
    suspended,       \* the capture loop has waited since it began
    is_listening,    \* the GUI's self.is_listening
    task,            \* the state of the task that runs the recognition loop
    fault,           \* the audio source has closed under an open stream
    dispatched,      \* the utterances process_command was started for, in order
    in_dispatch,     \* the utterances whose process_command has started and not ended
    stop_mark,       \* what had arrived and what was emitted at the latest stop
    gate_data,       \* the audio_data given to _calculate_volume
    gate_volume      \* what _calculate_volume returned for it

processor_vars ==
    <<cfg, commands, dictation_mode, driver, running, respond, sink_fails, last, repeated>>

recognizer_vars ==
    <<audio, pc, stream_active, is_recording, audio_queue, audio_frames, silence_frames,
      speaking_started, arrived, consumed, result, emitted, sessions, pending, suspended>>

session_vars == <<is_listening, task, fault, dispatched, in_dispatch, stop_mark>>

volume_vars == <<gate_data, gate_volume>>

vars == <<processor_vars, recognizer_vars, session_vars, volume_vars>>

Systems == {"linux", "windows", "darwin"}

\* main.py's run_command_mode and run_enhanced_dictation_mode, and
\* VoiceControlGUI._recognition_loop
Drivers == {"run_command_mode", "run_enhanced_dictation_mode", "gui"}

Custom(name, patterns, type, action, category) ==
    [name |-> name, patterns |-> patterns, type |-> type, action |-> action,
     category |-> category]

\* values of commands.custom the model is run with
CustomConfigs == {
    <<>>,
    <<Custom("sign", <<"sign off">>, "keystroke", "ctrl+s", "custom"),
      Custom("halt", <<"stop">>, "type", "halted", "custom")>>,
    <<Custom("copy", <<"copy">>, "type", "copied", "custom"),
      Custom("greet", <<"Hello World">>, "command", "notify-send hi", "custom"),
      Custom("odd", <<"sign off">>, "macro", "", "general")>>
}

\* texts the recognizer hands to process_command
Utterances == {
    "stop dictation", "sign off and stop dictation", "activate stop dictation",
    "press enter.", "press enter key", "enter.",
    "activate open browser", "deactivate open browser", "activate foo bar",
    "activate copy", "activate press enter", "activate type hello world",
    "activate press ctrl a",
    "start dictation", "activate start dictation",
    "activate close tab", "  Activate Minimize ", "sign off", "computer sign off",
    "hello world", "activate hello world", "   ",
    "hey activate assistant copy", "activate copy activate",
    "press page up", "hit escape", "press f5",
    "activate open tab", "activate show commands"
}

\* which of the (at most two) sink requests of one call raise
FailPatterns == {<<FALSE, FALSE>>, <<TRUE, FALSE>>, <<TRUE, TRUE>>}

Start(mode) == Result("", mode, "start", mode, <<>>, <<>>, 0, FALSE, "")

\* process_command is a function of the configuration, the registry, the mode and
\* its inputs; neither the configuration nor the registry changes after __init__,
\* so the function is evaluated here, once for each mode and input
Tabulate(c, registry) ==
    [k \in BOOLEAN \X Utterances \X FailPatterns |->
        process_command(c, registry, k[1], k[2], k[3])]

\* CommandProcessor.__init__, and main()'s choice of driver: only --dictation-mode
\* starts the processor in dictation mode
ProcessorInit(customs, systems, drivers) ==
    /\ cfg \in [wake_words : {DefaultWakeWords},
                stop_dictation_words : {DefaultStopDictation},
                start_dictation_words : {DefaultStartDictation},
                custom : customs,
                system : systems]
    /\ commands = InitialRegistry(cfg.start_dictation_words, cfg.stop_dictation_words,
                                  cfg.custom)
    /\ driver \in drivers
    /\ running = TRUE
    /\ dictation_mode = (driver = "run_enhanced_dictation_mode")
    /\ respond = Tabulate(cfg, commands)
    /\ sink_fails = <<FALSE, FALSE>>
    /\ last = Start(dictation_mode)
    /\ repeated = FALSE

\* the driver's loop body: `if text.strip():` in main.py, `if text:` in the GUI, then
\* `await process_command(text)`.  The GUI catches what process_command raises; in
\* main.py the exception leaves the loop and main() exits.
Dispatch(raw, fails) ==
    /\ running
    /\ driver = "gui" \/ Strip(raw) # ""
    /\ sink_fails' = fails
    /\ last' = respond[<<dictation_mode, raw, fails>>]
    /\ dictation_mode' = last'.mode
    /\ running' = (driver = "gui" \/ ~last'.raised)
    /\ repeated' = (last.outcome \notin {"start", "toggle"} /\ last.text = last'.text)
    /\ UNCHANGED <<cfg, commands, driver, respond, recognizer_vars, session_vars, volume_vars>>

\* VoiceControlGUI._toggle_dictation
ToggleDictation ==
    /\ driver = "gui"
    /\ dictation_mode' = ~dictation_mode
    /\ last' = Result("", dictation_mode, "toggle", ~dictation_mode, <<>>, <<>>, 0, FALSE, "")
    /\ sink_fails' = <<FALSE, FALSE>>
    /\ repeated' = FALSE
    /\ UNCHANGED <<cfg, commands, driver, running, respond, recognizer_vars, session_vars, volume_vars>>

(***************************************************************************)
(* VoiceRecognizer: the capture callback (producer) and                    *)
(* _record_audio_segment (consumer).  A frame is one callback buffer of    *)
(* chunk_size samples; it is identified by its arrival number and carries  *)
(* the RMS volume _calculate_volume finds in it.  The two configured       *)
(* durations are held in milliseconds, and the code's comparisons of       *)
(* n * chunk_size / sample_rate seconds with them are made exactly, by     *)
(* cross-multiplication.                                                   *)
(***************************************************************************)
MaxFrames == 6

MaxSessions == 2

AudioSettings(sample_rate, chunk_size, silence_threshold, silence_duration, min_audio_length) ==
    [sample_rate |-> sample_rate, chunk_size |-> chunk_size,
     silence_threshold |-> silence_threshold, silence_duration |-> silence_duration,
     min_audio_length |-> min_audio_length]

\* the defaults of VoiceRecognizer.__init__: 16000 Hz, 1024 samples, 500, 2.0 s, 1.0 s
DefaultAudio == AudioSettings(16000, 1024, 500, 2000, 1000)

\* settings the recognizer is run with: frames of 64 ms with a 0.1 s silence and a
\* 1.0 s minimum; frames of 0.5 s with a 0.4 s silence and a 1.5 s minimum; frames of
\* 0.5 s with a 1.0 s silence and a 0.5 s minimum; frames of 0.5 s with a 1.0 s
\* silence and a 1.0 s minimum
AudioConfigs == {
    AudioSettings(16000, 1024, 500, 100, 1000),
    AudioSettings(16000, 8000, 500, 400, 1500),
    AudioSettings(16000, 8000, 500, 1000, 500),
    AudioSettings(16000, 8000, 500, 1000, 1000)
}

\* volumes a frame may have: silence, exactly the threshold, above it
Volumes == {0, 500, 501}

Frame(n, volume) == [n |-> n, volume |-> volume]

NoSegment == [audio |-> FALSE, frames |-> <<>>]

Segment(frames) == [audio |-> TRUE, frames |-> frames]

\* volume > self.silence_threshold
VoiceDetected(a, data) == data.volume > a.silence_threshold

\* a faulty variant of the silence test: >= in place of >
SilenceReached(a, n) == n * a.chunk_size * 1000 >= a.silence_duration * a.sample_rate

\* (silence_frames * self.chunk_size) / self.sample_rate > self.silence_duration
SilenceExceeded(a, n) == n * a.chunk_size * 1000 > a.silence_duration * a.sample_rate

\* a faulty variant of the length test: only the frames above the threshold count
TooShortVoiceOnly(a, frames) ==
    Cardinality({i \in DOMAIN frames : frames[i].volume > a.silence_threshold})
        * a.chunk_size * 1000 < a.min_audio_length * a.sample_rate

\* (len(audio_frames) * self.chunk_size) / self.sample_rate < self.min_audio_length
TooShort(a, frames) == Len(frames) * a.chunk_size * 1000 < a.min_audio_length * a.sample_rate

\* a faulty variant of the return: no minimum length
SegmentResultAnyLength(a, frames) ==
    IF frames = <<>> THEN NoSegment ELSE Segment(frames)

\* what _record_audio_segment returns after its finally block
SegmentResult(a, frames) ==
    IF frames = <<>> THEN NoSegment
    ELSE IF TooShort(a, frames) THEN NoSegment
    ELSE Segment(frames)

\* VoiceRecognizer.__init__
RecognizerInit(settings) ==
    /\ audio \in settings
    /\ pc = "idle"
    /\ stream_active = FALSE
    /\ is_recording = FALSE
    /\ audio_queue = <<>>
    /\ audio_frames = <<>>
    /\ silence_frames = 0
    /\ speaking_started = FALSE
    /\ arrived = 0
    /\ consumed = <<>>
    /\ result = NoSegment
    /\ emitted = <<>>
    /\ sessions = 0
    /\ pending = <<>>
    /\ suspended = FALSE

\* recognize_once enters _record_audio_segment: self.audio.open(...) starts the
\* stream, whose callback runs on the capture thread from then on
OpenStream ==
    /\ pc \in {"idle", "returned"}
    /\ sessions < MaxSessions
    /\ sessions' = sessions + 1
    /\ stream_active' = TRUE
    /\ pc' = "opened"
    /\ UNCHANGED <<audio, is_recording, audio_queue, audio_frames, silence_frames,
                   speaking_started, arrived, consumed, result, emitted, processor_vars, session_vars, volume_vars, pending, suspended>>

\* self.is_recording = True; audio_frames = []; silence_frames = 0;
\* speaking_started = False
StartRecording ==
    /\ pc = "opened"
    /\ is_recording' = TRUE
    /\ audio_frames' = <<>>
    /\ silence_frames' = 0
    /\ speaking_started' = FALSE
    /\ consumed' = <<>>
    /\ suspended' = FALSE
    /\ pc' = "recording"
    /\ UNCHANGED <<audio, stream_active, audio_queue, arrived, result, emitted, sessions,
                   processor_vars, session_vars, volume_vars, pending>>

\* the capture thread delivers one frame
_audio_callback(volume) ==
    /\ stream_active
    /\ arrived < MaxFrames
    /\ arrived' = arrived + 1
    /\ audio_queue' = IF is_recording THEN Append(audio_queue, Frame(arrived + 1, volume))
                      ELSE audio_queue
    /\ UNCHANGED <<audio, pc, stream_active, is_recording, audio_frames, silence_frames,
                   speaking_started, consumed, result, emitted, sessions, processor_vars, session_vars, volume_vars, pending, suspended>>

\* the two halves of _audio_callback, which runs on the capture thread:
\* `if self.is_recording:` is tested, and the consumer may run before the put.
\* The frame carries the capture during which it was delivered.
CallbackTests(volume) ==
    /\ stream_active
    /\ arrived < MaxFrames
    /\ pending = <<>>
    /\ arrived' = arrived + 1
    /\ pending' = IF is_recording
                  THEN <<[n |-> arrived + 1, volume |-> volume, session |-> sessions]>>
                  ELSE <<>>
    /\ UNCHANGED <<audio, pc, stream_active, is_recording, audio_queue, audio_frames,
                   silence_frames, speaking_started, consumed, result, emitted, sessions,
                   processor_vars, session_vars, volume_vars, suspended>>

\* self.audio_queue.put(in_data)
CallbackPuts ==
    /\ pending # <<>>
    /\ audio_queue' = Append(audio_queue, pending[1])
    /\ pending' = <<>>
    /\ UNCHANGED <<audio, pc, stream_active, is_recording, audio_frames, silence_frames,
                   speaking_started, arrived, consumed, result, emitted, sessions,
                   processor_vars, session_vars, volume_vars, suspended>>

\* a faulty variant of stop_stream, which returns while a callback is running
CallbackAbandoned(callback) == TRUE

\* stream.stop_stream() returns once the capture thread has left its callback
CallbackDone(callback) == callback = <<>>

\* a faulty variant of the turn: voice does not reset silence_frames
ConsumeFrameKeepingSilence ==
    /\ pc = "recording"
    /\ audio_queue # <<>>
    /\ audio_queue' = Tail(audio_queue)
    /\ consumed' = Append(consumed, Head(audio_queue))
    /\ IF VoiceDetected(audio, Head(audio_queue))
       THEN /\ speaking_started' = TRUE
            /\ audio_frames' = Append(audio_frames, Head(audio_queue))
            /\ UNCHANGED <<silence_frames, pc>>
       ELSE IF speaking_started
       THEN /\ silence_frames' = silence_frames + 1
            /\ audio_frames' = Append(audio_frames, Head(audio_queue))
            /\ pc' = IF SilenceExceeded(audio, silence_frames + 1) THEN "finally" ELSE pc
            /\ UNCHANGED speaking_started
       ELSE UNCHANGED <<speaking_started, silence_frames, audio_frames, pc>>
    /\ UNCHANGED <<audio, stream_active, is_recording, arrived, result, emitted, sessions,
                   processor_vars, session_vars, volume_vars, pending, suspended>>

\* one turn of `while True:` in which audio_queue.get returns a frame (a turn in
\* which it times out sleeps and changes nothing)
ConsumeFrame ==
    /\ pc = "recording"
    /\ audio_queue # <<>>
    /\ audio_queue' = Tail(audio_queue)
    /\ consumed' = Append(consumed, Head(audio_queue))
    /\ IF VoiceDetected(audio, Head(audio_queue))
       THEN /\ speaking_started' = TRUE
            /\ silence_frames' = 0
            /\ audio_frames' = Append(audio_frames, Head(audio_queue))
            /\ pc' = pc
       ELSE IF speaking_started
       THEN /\ silence_frames' = silence_frames + 1
            /\ audio_frames' = Append(audio_frames, Head(audio_queue))
            /\ pc' = IF SilenceExceeded(audio, silence_frames + 1) THEN "finally" ELSE pc
            /\ UNCHANGED speaking_started
       ELSE UNCHANGED <<speaking_started, silence_frames, audio_frames, pc>>
    /\ UNCHANGED <<audio, stream_active, is_recording, arrived, result, emitted, sessions,
                   processor_vars, session_vars, volume_vars, pending, suspended>>

\* finally: self.is_recording = False
StopRecording ==
    /\ pc = "finally"
    /\ is_recording' = FALSE
    /\ pc' = "stopping"
    /\ UNCHANGED <<audio, stream_active, audio_queue, audio_frames, silence_frames,
                   speaking_started, arrived, consumed, result, emitted, sessions,
                   processor_vars, session_vars, volume_vars, pending, suspended>>

\* stream.stop_stream(); stream.close()
CloseStream ==
    /\ pc = "stopping"
    /\ stream_active' = FALSE
    /\ pc' = "draining"
    /\ UNCHANGED <<audio, is_recording, audio_queue, audio_frames, silence_frames,
                   speaking_started, arrived, consumed, result, emitted, sessions,
                   processor_vars, session_vars, volume_vars, pending, suspended>>

\* the queue is cleared, _record_audio_segment returns, and recognize_once hands
\* the audio it got, if any, to _transcribe_audio
ReturnSegment ==
    /\ pc = "draining"
    /\ audio_queue' = <<>>
    /\ result' = SegmentResult(audio, audio_frames)
    /\ emitted' = IF result'.audio THEN Append(emitted, result'.frames) ELSE emitted
    /\ pc' = "returned"
    /\ UNCHANGED <<audio, stream_active, is_recording, audio_frames, silence_frames,
                   speaking_started, arrived, consumed, sessions, processor_vars, session_vars, volume_vars, pending, suspended>>

(***************************************************************************)
(* The volume of one frame.  A frame is the bytes of its little-endian     *)
(* signed 16-bit samples, possibly followed by one stray byte.  A float64  *)
(* is either the square root of an exact fraction num/den or not a number; *)
(* sums of a few squares of 16-bit samples are exact in it, and are kept   *)
(* here as hi * 2^30 + lo with 0 <= lo < 2^30.                             *)
(***************************************************************************)
MaxSamples == 3

\* the 16-bit samples frames are built from: both extremes, the smallest magnitudes,
\* and 182, the least sample whose square exceeds 32767
Samples == {0 - 32768, 0 - 1, 0, 1, 182, 32767}

AudioData(samples, stray) == [samples |-> samples, stray |-> stray]

Frames ==
    {AudioData(samples, stray) :
        samples \in UNION {[1..n -> Samples] : n \in 0..MaxSamples}, stray \in BOOLEAN}

NotANumber == [kind |-> "nan"]

Root(num, den) == [kind |-> "finite", num |-> num, den |-> den]

\* the float64 of an integer below 2^31
Float(n) == [hi |-> n \div 1073741824, lo |-> n % 1073741824]

\* float64 addition, exact here
Plus(a, b) ==
    [hi |-> a.hi + b.hi + (a.lo + b.lo) \div 1073741824,
     lo |-> (a.lo + b.lo) % 1073741824]

Zero == Root(Float(0), 1)

NoVolume == [kind |-> "none"]

\* np.frombuffer(audio_data, dtype=np.int16): a buffer whose size is no multiple of
\* two bytes raises ValueError
FromBuffer(data) == [raised |-> data.stray, samples |-> data.samples]

RECURSIVE SumOfSquares(_)
\* the sum of audio_np.astype(np.float64)**2
SumOfSquares(samples) ==
    IF samples = <<>> THEN Float(0)
    ELSE Plus(Float(Head(samples) * Head(samples)), SumOfSquares(Tail(samples)))

\* np.mean: of nothing it is nan (with a warning)
Mean(samples) ==
    IF samples = <<>> THEN NotANumber ELSE Root(SumOfSquares(samples), Len(samples))

\* mean_square < 0 or np.isnan(mean_square) or np.isinf(mean_square)
Unusable(mean_square) == mean_square.kind # "finite" \/ mean_square.num.hi < 0

\* np.sqrt: of nan, or of a negative number, it is nan
Sqrt(mean_square) == IF Unusable(mean_square) THEN NotANumber ELSE mean_square

\* a faulty variant of the computation: none of its guards, and no except clause
_calculate_volume_unguarded(audio_data) ==
    IF FromBuffer(audio_data).raised THEN [kind |-> "raised"]
    ELSE Sqrt(Mean(FromBuffer(audio_data).samples))

\* VoiceRecognizer._calculate_volume
_calculate_volume(audio_data) ==
    IF audio_data.samples = <<>> /\ ~audio_data.stray THEN Zero
    ELSE IF FromBuffer(audio_data).raised THEN Zero
    ELSE IF Len(FromBuffer(audio_data).samples) = 0 THEN Zero
    ELSE IF Unusable(Mean(FromBuffer(audio_data).samples)) THEN Zero
    ELSE Sqrt(Mean(FromBuffer(audio_data).samples))

\* a frame is at hand and has not been measured yet
VolumeInit(frames) ==
    /\ gate_data \in frames
    /\ gate_volume = NoVolume

\* volume = self._calculate_volume(data)
MeasureVolume ==
    /\ gate_volume' = _calculate_volume(gate_data)
    /\ UNCHANGED <<gate_data, processor_vars, recognizer_vars, session_vars>>

(***************************************************************************)
(* The recognition loop and what runs beside it.                           *)
(***************************************************************************)
\* the GUI as constructed is not listening and has no recognition task; main.py's
\* loops run from the start
SessionInit ==
    /\ is_listening = FALSE
    /\ task = IF driver = "gui" THEN "none" ELSE "running"
    /\ fault = FALSE
    /\ dispatched = <<>>
    /\ in_dispatch = {}
    /\ stop_mark = [frames |-> 0, utterances |-> 0, dispatched |-> 0, partial |-> FALSE]

\* what recognition returns in the loop: nothing, or one of these texts
LoopTexts == {"", "hello world", "activate press enter", "stop dictation"}

\* the GUI's handlers run inside root.update(), which run() calls between two waits
\* of its own: only while the recognition task stands at an await, or does not run
GuiRuns ==
    /\ driver = "gui"
    /\ task # "running" \/ pc \in {"sleeping", "transcribing", "dispatching"}

\* process_command waits where it asks a sink for something: the sink's methods
\* await loop.run_in_executor
Suspends(r) == r.calls # <<>>

\* a faulty variant of the loop body: process_command is started and not awaited
NotAwaiting(r) == "idle"

\* `await ...process_command(text)`: the loop goes on when the call has ended
Awaiting(r) == IF Suspends(r) THEN "dispatching" ELSE "idle"

\* a faulty variant of the finally block: the queue is left as it is
Undrained(queue) == queue

\* while not self.audio_queue.empty(): self.audio_queue.get_nowait()
Drained(queue) == <<>>

\* _start_listening: self.is_listening = True; the task of _recognition_loop is created
StartListening ==
    /\ driver = "gui"
    /\ ~is_listening
    /\ task \in {"none", "done"}
    /\ sessions < MaxSessions
    /\ is_listening' = TRUE
    /\ task' = "running"
    /\ UNCHANGED <<fault, dispatched, in_dispatch, stop_mark, processor_vars,
                   recognizer_vars, volume_vars>>

\* _stop_listening: self.is_listening = False; self.recognition_task.cancel()
StopListening ==
    /\ GuiRuns
    /\ is_listening
    /\ is_listening' = FALSE
    /\ task' = IF task = "running" THEN "cancelling" ELSE task
    /\ stop_mark' = [frames |-> arrived, utterances |-> Len(emitted),
                     dispatched |-> Len(dispatched),
                     partial |-> (pc = "sleeping" /\ audio_frames # <<>>)]
    /\ UNCHANGED <<fault, dispatched, in_dispatch, processor_vars, recognizer_vars,
                   volume_vars>>

\* CancelledError is raised in the task where it waits: inside the capture loop it
\* reaches the finally block; in transcription or in process_command it passes every
\* `except Exception` and ends the task
Cancel ==
    /\ task = "cancelling"
    /\ pc \in {"sleeping", "transcribing", "dispatching"}
    /\ pc' = IF pc = "sleeping" THEN "finally" ELSE "idle"
    /\ task' = IF pc = "sleeping" THEN task ELSE "done"
    /\ in_dispatch' = {}
    /\ UNCHANGED <<audio, stream_active, is_recording, audio_queue, audio_frames,
                   silence_frames, speaking_started, arrived, consumed, result, emitted,
                   sessions, is_listening, fault, dispatched, stop_mark, processor_vars,
                   volume_vars, pending, suspended>>

\* the finally block ends under the CancelledError: the queue is cleared and the
\* error leaves _record_audio_segment, recognize_once and the loop
AbandonSegment ==
    /\ task = "cancelling"
    /\ pc = "draining"
    /\ audio_queue' = Drained(audio_queue)
    /\ pc' = "idle"
    /\ task' = "done"
    /\ UNCHANGED <<audio, stream_active, is_recording, audio_frames, silence_frames,
                   speaking_started, arrived, consumed, result, emitted, sessions,
                   is_listening, fault, dispatched, in_dispatch, stop_mark,
                   processor_vars, volume_vars, pending, suspended>>

\* except queue.Empty: await asyncio.sleep(0.01)
PollEmpty ==
    /\ task = "running"
    /\ pc = "recording"
    /\ audio_queue = <<>>
    /\ pc' = "sleeping"
    /\ suspended' = TRUE
    /\ UNCHANGED <<audio, stream_active, is_recording, audio_queue, audio_frames,
                   silence_frames, speaking_started, arrived, consumed, result, emitted,
                   sessions, processor_vars, session_vars, volume_vars, pending>>

\* the sleep is over: the next turn of `while True:`
Wake ==
    /\ task = "running"
    /\ pc = "sleeping"
    /\ pc' = "recording"
    /\ UNCHANGED <<audio, stream_active, is_recording, audio_queue, audio_frames,
                   silence_frames, speaking_started, arrived, consumed, result, emitted,
                   sessions, processor_vars, session_vars, volume_vars, pending, suspended>>

\* recognize_once: `if not audio_data: return ""`, else it awaits _transcribe_audio
BeginTranscription ==
    /\ task = "running"
    /\ pc = "returned"
    /\ pc' = IF result.audio THEN "transcribing" ELSE "idle"
    /\ UNCHANGED <<audio, stream_active, is_recording, audio_queue, audio_frames,
                   silence_frames, speaking_started, arrived, consumed, result, emitted,
                   sessions, processor_vars, session_vars, volume_vars, pending, suspended>>

\* the transcription returns text; continuous_recognition yields it if it is not
\* empty, and the loop body starts process_command for it, which runs up to its
\* first wait
Recognized(text, fails) ==
    /\ task = "running"
    /\ pc = "transcribing"
    /\ IF text = ""
       THEN /\ pc' = "idle"
            /\ UNCHANGED <<dictation_mode, running, sink_fails, last, repeated,
                           dispatched, in_dispatch>>
       ELSE /\ sink_fails' = fails
            /\ last' = respond[<<dictation_mode, text, fails>>]
            /\ dictation_mode' = last'.mode
            /\ repeated' = (last.outcome \notin {"start", "toggle"} /\ last.text = last'.text)
            /\ dispatched' = Append(dispatched, Len(emitted))
            /\ pc' = Awaiting(last')
            /\ in_dispatch' = IF Suspends(last') THEN in_dispatch \cup {Len(emitted)}
                              ELSE in_dispatch
            /\ UNCHANGED running
    /\ UNCHANGED <<cfg, commands, driver, respond, audio, stream_active, is_recording,
                   audio_queue, audio_frames, silence_frames, speaking_started, arrived,
                   consumed, result, emitted, sessions, is_listening, task, fault,
                   stop_mark, volume_vars, pending, suspended>>

\* the sink has answered and process_command ends: it returns, or what the sink
\* raised leaves it, which the GUI catches and main.py's loops do not
EndDispatch ==
    /\ task = "running"
    /\ pc = "dispatching"
    /\ pc' = "idle"
    /\ in_dispatch' = {}
    /\ running' = (driver = "gui" \/ ~sink_fails[1])
    /\ task' = IF running' THEN task ELSE "done"
    /\ UNCHANGED <<cfg, commands, dictation_mode, driver, respond, sink_fails, last,
                   repeated, audio, stream_active, is_recording, audio_queue,
                   audio_frames, silence_frames, speaking_started, arrived, consumed,
                   result, emitted, sessions, is_listening, fault, dispatched, stop_mark,
                   volume_vars, pending, suspended>>

\* the device has a frame of sound while no stream is open on it: nothing calls
\* _audio_callback
Unheard ==
    /\ ~stream_active
    /\ arrived < MaxFrames
    /\ arrived' = arrived + 1
    /\ UNCHANGED <<audio, pc, stream_active, is_recording, audio_queue, audio_frames,
                   silence_frames, speaking_started, consumed, result, emitted, sessions,
                   processor_vars, session_vars, volume_vars, pending, suspended>>

\* the audio source closes under the open stream: the callback is not called again,
\* and nothing is put in the queue or raised in the capture loop
SourceCloses ==
    /\ stream_active
    /\ pc \in {"recording", "sleeping"}
    /\ ~fault
    /\ fault' = TRUE
    /\ UNCHANGED <<is_listening, task, dispatched, in_dispatch, stop_mark,
                   processor_vars, recognizer_vars, volume_vars>>

(***************************************************************************)
(* Two specifications: the command processor under its driver, with the    *)
(* recognizer as constructed; and the recognizer capturing, with the       *)
(* processor as constructed.                                               *)
(***************************************************************************)
Init ==
    /\ ProcessorInit(CustomConfigs, Systems, Drivers)
    /\ RecognizerInit({DefaultAudio})
    /\ SessionInit
    /\ VolumeInit({AudioData(<<>>, FALSE)})

Next ==
    \/ \E raw \in Utterances, fails \in FailPatterns : Dispatch(raw, fails)
    \/ ToggleDictation

Spec == Init /\ [][Next]_vars

SegInit ==
    /\ ProcessorInit({<<>>}, {"linux"}, {"gui"})
    /\ RecognizerInit(AudioConfigs)
    /\ SessionInit
    /\ VolumeInit({AudioData(<<>>, FALSE)})

SegNext ==
    \/ OpenStream
    \/ StartRecording
    \/ \E volume \in Volumes : _audio_callback(volume)
    \/ ConsumeFrame
    \/ StopRecording
    \/ CloseStream
    \/ ReturnSegment

SegSpec == SegInit /\ [][SegNext]_vars

\* the capture with the callback in its two halves, run with frames of 0.5 s
RaceInit ==
    /\ ProcessorInit({<<>>}, {"linux"}, {"gui"})
    /\ RecognizerInit({AudioSettings(16000, 8000, 500, 400, 1500),
                       AudioSettings(16000, 8000, 500, 1000, 500)})
    /\ SessionInit
    /\ VolumeInit({AudioData(<<>>, FALSE)})

RaceNext ==
    \/ OpenStream
    \/ StartRecording
    \/ \E volume \in {0, 501} : CallbackTests(volume)
    \/ CallbackPuts
    \/ ConsumeFrame
    \/ StopRecording
    \/ CallbackDone(pending) /\ CloseStream
    \/ ReturnSegment

RaceSpec == RaceInit /\ [][RaceNext]_vars

\* the volume gate alone, measuring the frame at hand
VolInit ==
    /\ ProcessorInit({<<>>}, {"linux"}, {"gui"})
    /\ RecognizerInit({DefaultAudio})
    /\ SessionInit
    /\ VolumeInit(Frames)

VolSpec == VolInit /\ [][MeasureVolume]_vars

\* the recognition loop: capture, transcription and dispatch in turn, run with
\* frames of 0.5 s, a silence of 0.4 s and a minimum of 1.5 s
LoopInit(drivers) ==
    /\ ProcessorInit({<<>>}, {"linux"}, drivers)
    /\ RecognizerInit({AudioSettings(16000, 8000, 500, 400, 1500)})
    /\ SessionInit
    /\ VolumeInit({AudioData(<<>>, FALSE)})

\* one step of the recognition task
TaskStep ==
    \/ task = "running" /\ pc = "idle" /\ OpenStream
    \/ task = "running" /\ StartRecording
    \/ task = "running" /\ ConsumeFrame
    \/ PollEmpty
    \/ Wake
    \/ StopRecording
    \/ CloseStream
    \/ task = "running" /\ ReturnSegment
    \/ BeginTranscription
    \/ \E text \in LoopTexts, fails \in FailPatterns : Recognized(text, fails)
    \/ EndDispatch

\* the loop under the GUI, with the capture thread and the GUI's buttons beside it;
\* the dictation button is pressed while an utterance is transcribed or dispatched
LoopNext ==
    \/ TaskStep
    \/ Cancel
    \/ AbandonSegment
    \/ \E volume \in {0, 501} : _audio_callback(volume)
    \/ StartListening
    \/ StopListening
    \/ GuiRuns /\ pc \in {"transcribing", "dispatching"} /\ ToggleDictation

LoopSpec == LoopInit({"gui"}) /\ [][LoopNext]_vars

\* the loop of main.py, with the capture thread and the audio source beside it
LiveNext ==
    \/ TaskStep
    \/ \E volume \in {0, 501} : ~fault /\ _audio_callback(volume)
    \/ pc = "transcribing" /\ Unheard
    \/ SourceCloses

\* the event loop runs the task whenever it can take a step
LiveSpec == LoopInit({"run_command_mode"}) /\ [][LiveNext]_vars /\ WF_vars(TaskStep)

(***************************************************************************)
(* Properties of the command processor, checked under Spec.  `last` is the *)
(* latest process_command call: its normalised text, the mode it started   *)
(* in (`before`), the sink requests carried out (`calls`), the handlers    *)
(* invoked (`ran`).                                                        *)
(***************************************************************************)

\* C1: in Dictation mode, an utterance whose text contains a configured
\* stop-dictation phrase switches the mode to Command, and nothing is typed, no key
\* is pressed and no handler runs, whatever custom commands also match the text.
C1_StopPhraseLeavesDictation ==
    (/\ last.outcome \notin {"start", "toggle"}
     /\ last.before
     /\ \E k \in 1..Len(cfg.stop_dictation_words) :
            Contains(last.text, cfg.stop_dictation_words[k]))
    => (~dictation_mode /\ last.calls = <<>> /\ last.ran = <<>> /\ ~last.raised)

\* "sign off and stop dictation" said in Dictation mode while the custom commands
\* "sign" (pattern "sign off") and "halt" (pattern "stop") are registered
C1_Witness ==
    /\ last.before
    /\ last.text = "sign off and stop dictation"
    /\ \E c \in 1..Len(commands) :
          commands[c].category = "custom" /\ commands[c].patterns = <<"sign off">>
    /\ ~dictation_mode

\* C2: in Dictation mode, when the sink accepts the request, "press enter." and
\* "press enter key" each make exactly one request, a press of enter, and type
\* nothing; the bare "enter." is typed as "enter. " and presses no key.
C2_KeyDirectiveBeforeTyping ==
    (last.outcome \notin {"start", "toggle"} /\ last.before /\ ~sink_fails[1])
    => /\ last.text \in {"press enter.", "press enter key"}
            => last.calls = <<[op |-> "send_key", arg |-> "enter", modifiers |-> <<>>]>>
       /\ last.text = "enter."
            => last.calls = <<[op |-> "type_text", arg |-> "enter. ", modifiers |-> <<>>]>>

C2_Witness ==
    /\ last.before
    /\ ~sink_fails[1]
    /\ last.text = "press enter."
    /\ Len(last.calls) = 1
    /\ last.calls[1].op = "send_key"

\* C3: in Command mode "activate open browser" is taken as the command text
\* "open browser", while "deactivate open browser", where the wake word is only
\* part of another word, is ignored: no handler runs, no sink request is made and
\* the mode stays Command.
C3_WakeWordIsWholeWords ==
    (last.outcome \notin {"start", "toggle"} /\ ~last.before)
    => /\ last.text = "activate open browser"
            => (last.outcome # "ignored" /\ last.command_text = "open browser")
       /\ last.text = "deactivate open browser"
            => /\ last.outcome = "ignored"
               /\ last.ran = <<>>
               /\ last.calls = <<>>
               /\ ~dictation_mode

C3_Witness ==
    /\ ~last.before
    /\ last.text = "deactivate open browser"
    /\ last.outcome = "ignored"

\* C4: in Command mode, when the text has a wake word and no pattern of any
\* registered command matches what is left after stripping it, no handler runs and
\* no sink request is made: the residual text is not typed.
C4_UnmatchedCommandIsDropped ==
    (/\ last.outcome \notin {"start", "toggle", "empty", "ignored"}
     /\ ~last.before
     /\ \A c \in 1..Len(commands) : \A p \in 1..Len(commands[c].patterns) :
            ~PatternMatch(commands[c].patterns[p], last.command_text).matched)
    => (last.ran = <<>> /\ last.calls = <<>> /\ ~last.raised)

C4_Witness ==
    /\ ~last.before
    /\ last.text = "activate foo bar"
    /\ last.command_text = "foo bar"
    /\ last.outcome = "no_match"

\* C5: in Command mode, when patterns of two registered commands match the command
\* text, only the handler of the command registered earlier is invoked.
C5_FirstMatchWins ==
    (last.outcome \notin {"start", "toggle", "empty", "ignored"} /\ ~last.before)
    => \A c, d \in 1..Len(commands) :
          (/\ c < d
           /\ \E p \in 1..Len(commands[c].patterns) :
                  PatternMatch(commands[c].patterns[p], last.command_text).matched
           /\ \E p \in 1..Len(commands[d].patterns) :
                  PatternMatch(commands[d].patterns[p], last.command_text).matched)
          => (/\ Len(last.ran) = 1
              /\ last.ran[1].name # commands[d].name
              /\ \E b \in 1..c : last.ran[1].name = commands[b].name)

\* "activate close tab": close_application ("close (\w+)") is registered before
\* close_tab ("close tab")
C5_Witness ==
    /\ ~last.before
    /\ last.command_text = "close tab"
    /\ Len(last.ran) = 1
    /\ last.ran[1].name = "close_application"
    /\ \E d \in 1..Len(commands) : commands[d].name = "close_tab"

\* C6 (as stated): after "start dictation" has been sent twice in a row the system
\* is in Dictation mode.
C6_StartTwiceIsDictation ==
    (repeated /\ last.text = "start dictation") => dictation_mode

\* C6 (amended): a start-dictation utterance processed in Dictation mode leaves the
\* mode Dictation, so a second occurrence never toggles it back; sent twice in a
\* row with a wake word ("activate start dictation") it leaves the system in
\* Dictation mode; the bare "start dictation" sent twice in Command mode has no wake
\* word, is ignored both times, and leaves the system in Command mode.
C6_StartDictationIsIdempotent ==
    (last.outcome \notin {"start", "toggle"}
     /\ last.text \in {"start dictation", "activate start dictation"})
    => /\ last.before => dictation_mode
       /\ (repeated /\ last.text = "activate start dictation") => dictation_mode
       /\ (repeated /\ last.text = "start dictation" /\ ~last.before)
            => (~dictation_mode /\ last.outcome = "ignored")

\* the second "activate start dictation", processed in Dictation mode, has run the
\* start_dictation handler again
C6_Witness ==
    /\ repeated
    /\ last.text = "activate start dictation"
    /\ last.before
    /\ Len(last.ran) = 1
    /\ last.ran[1].name = "start_dictation"
    /\ dictation_mode

\* C9: when a matched handler raises, in either mode, the utterance is consumed:
\* the error is logged, no sink request is carried out for the utterance (its text
\* is not typed), no second handler is tried, and the driver's loop goes on.
C9_RaisingHandlerConsumes ==
    (/\ last.outcome \in {"failed", "typed"}
     /\ last.ran # <<>>)
    => (/\ last.errors >= 1
        /\ Len(last.ran) = 1
        /\ last.calls = <<>>
        /\ ~last.raised
        /\ running)

\* C10: in Command mode, when the sink accepts the request, each of "activate press
\* enter", "activate type hello world", "activate press ctrl a" and "activate copy"
\* makes exactly one sink request.
C10_OneSinkActionPerCommand ==
    (/\ last.outcome \notin {"start", "toggle"}
     /\ ~last.before
     /\ ~sink_fails[1]
     /\ last.text \in {"activate press enter", "activate type hello world",
                       "activate press ctrl a", "activate copy"})
    => Len(last.calls) = 1

(***************************************************************************)
(* Properties of the recognizer, checked under SegSpec.                    *)
(***************************************************************************)

\* C7: no utterance is emitted whose duration, frame count * chunk_size /
\* sample_rate with active and trailing silent frames counted, is below
\* min_audio_length; with frames of 1024 samples at 16000 Hz and a minimum of 1.0 s
\* a capture holding a single active frame is discarded.
C7_NoShortUtterance ==
    /\ \A k \in 1..Len(emitted) :
          Len(emitted[k]) * audio.chunk_size * 1000 >= audio.min_audio_length * audio.sample_rate
    /\ (pc = "returned" /\ result.audio)
          => Len(result.frames) * audio.chunk_size * 1000
                 >= audio.min_audio_length * audio.sample_rate
    /\ (/\ pc = "returned"
        /\ audio.chunk_size = 1024 /\ audio.sample_rate = 16000
        /\ audio.min_audio_length = 1000
        /\ Cardinality({i \in 1..Len(audio_frames) :
                           audio_frames[i].volume > audio.silence_threshold}) = 1)
          => (~result.audio /\ emitted = <<>>)

\* a capture of one active frame and its trailing silence, 1024 samples at 16000 Hz,
\* minimum 1.0 s, has returned nothing
C7_Witness ==
    /\ pc = "returned"
    /\ audio.chunk_size = 1024 /\ audio.sample_rate = 16000
    /\ audio.min_audio_length = 1000
    /\ Len(audio_frames) > 1
    /\ Cardinality({i \in 1..Len(audio_frames) :
                       audio_frames[i].volume > audio.silence_threshold}) = 1
    /\ ~result.audio

\* C8 (as stated): a capture that has consumed N >= 1 active frames and then silent
\* frames until the silence exceeded silence_duration emits one utterance, made of
\* all the frames consumed, in arrival order.
C8_FinalizedCaptureIsEmitted ==
    (/\ pc = "returned"
     /\ \E N \in 1..Len(consumed) :
           /\ \A i \in 1..N : consumed[i].volume > audio.silence_threshold
           /\ \A i \in (N + 1)..Len(consumed) : consumed[i].volume <= audio.silence_threshold)
    => (/\ result.audio
        /\ result.frames = consumed
        /\ emitted # <<>>
        /\ emitted[Len(emitted)] = consumed)

\* C8 (amended): such a capture ends at the first silent frame at which the silence
\* exceeds silence_duration; when the duration of the frames consumed is at least
\* min_audio_length it emits exactly one utterance, made of all N active frames and
\* the silent frames up to and including that one, in arrival order; when it is
\* shorter, which can happen only if silence_duration < min_audio_length, it emits
\* nothing.
C8_FinalizedCaptureIsEmittedIfLongEnough ==
    (/\ pc = "returned"
     /\ \E N \in 1..Len(consumed) :
           /\ \A i \in 1..N : consumed[i].volume > audio.silence_threshold
           /\ \A i \in (N + 1)..Len(consumed) : consumed[i].volume <= audio.silence_threshold)
    => /\ \A i \in 1..Len(consumed) : consumed[i].n = consumed[1].n + i - 1
       /\ \E N \in 1..(Len(consumed) - 1) :
             /\ consumed[N].volume > audio.silence_threshold
             /\ consumed[N + 1].volume <= audio.silence_threshold
             /\ (Len(consumed) - N) * audio.chunk_size * 1000
                    > audio.silence_duration * audio.sample_rate
             /\ (Len(consumed) - N - 1) * audio.chunk_size * 1000
                    <= audio.silence_duration * audio.sample_rate
       /\ IF Len(consumed) * audio.chunk_size * 1000
                 >= audio.min_audio_length * audio.sample_rate
          THEN /\ result.audio
               /\ result.frames = consumed
               /\ emitted # <<>>
               /\ emitted[Len(emitted)] = consumed
               /\ Len(emitted) <= sessions
               /\ \A k \in 1..(Len(emitted) - 1) : emitted[k] # consumed
          ELSE /\ ~result.audio
               /\ Len(emitted) < sessions
               /\ audio.silence_duration < audio.min_audio_length

\* two active frames and one silent frame of 0.5 s each, emitted as one utterance of
\* 1.5 s
C8_Witness ==
    /\ pc = "returned"
    /\ Len(consumed) = 3
    /\ consumed[1].volume > audio.silence_threshold
    /\ consumed[2].volume > audio.silence_threshold
    /\ consumed[3].volume <= audio.silence_threshold
    /\ result.audio
    /\ result.frames = consumed
    /\ emitted = <<consumed>>

(***************************************************************************)
(* Further properties of the command processor, checked under Spec.        *)
(***************************************************************************)

\* C11: in Dictation mode a non-empty utterance has exactly one outcome, taken in
\* this order: a stop phrase switches to Command and nothing else happens; else a
\* key directive makes one key press; else a matching custom or dictation command
\* has its handler run once, and the text is not typed; else the text and one blank
\* are typed by one request.  An utterance without stop phrase and without custom
\* match makes exactly one sink request when the sink accepts it.
C11_OneOutcomeInPriorityOrder ==
    (last.outcome \notin {"start", "toggle"} /\ last.before /\ last.text # "")
    => LET stop == \E k \in 1..Len(cfg.stop_dictation_words) :
                       Contains(last.text, cfg.stop_dictation_words[k])
           key == MatchingKeyPatterns(last.text) # {}
           custom == \E c \in 1..Len(commands) :
                        /\ commands[c].category \in {"custom", "dictation"}
                        /\ \E p \in 1..Len(commands[c].patterns) :
                               Contains(last.text, Lower(commands[c].patterns[p]))
           typed == \E i \in 1..Len(last.calls) :
                        last.calls[i] = [op |-> "type_text", arg |-> last.text \o " ",
                                         modifiers |-> <<>>]
       IN  /\ stop => (/\ last.outcome = "stop" /\ ~dictation_mode
                       /\ last.calls = <<>> /\ last.ran = <<>>)
           /\ (~stop /\ key)
                 => (/\ last.outcome = "key" /\ last.ran = <<>> /\ ~typed
                     /\ ~sink_fails[1]
                           => (Len(last.calls) = 1 /\ last.calls[1].op = "send_key"))
           /\ (~stop /\ ~key /\ custom)
                 => (last.outcome = "custom" /\ Len(last.ran) = 1 /\ ~typed)
           /\ (~stop /\ ~key /\ ~custom)
                 => (/\ last.outcome = "typed" /\ last.ran = <<>>
                     /\ ~sink_fails[1] => (Len(last.calls) = 1 /\ typed))
           /\ (~stop /\ ~custom /\ ~sink_fails[1]) => Len(last.calls) = 1

\* C17: a sink request that raises during dispatch does not end the dispatch loop:
\* under every driver, after a call whose sink requests raise the loop is still
\* running and takes the next utterance.
C17_SinkFailureIsNotFatal ==
    (last.outcome \notin {"start", "toggle"} /\ sink_fails[1]) => running

\* C19: command names are unique within the registry after the default and the
\* custom registrations; a registration under an existing name replaces the earlier
\* definition (the built-in type_text, registered twice, and a custom command named
\* like a built-in), and only the definition registered last executes.
C19_RegistryNamesUnique ==
    /\ \A i, j \in 1..Len(commands) : commands[i].name = commands[j].name => i = j
    /\ \A c \in 1..Len(commands) :
          commands[c].name = "type_text" => commands[c].category = "input"
    /\ \A k \in 1..Len(cfg.custom) : \A c \in 1..Len(commands) :
          commands[c].name = cfg.custom[k].name
             => /\ commands[c].patterns = cfg.custom[k].patterns
                /\ commands[c].category = cfg.custom[k].category
                /\ commands[c].handler = _create_custom_handler(cfg.custom[k])
    /\ (/\ last.outcome = "command"
        /\ last.command_text = "copy"
        /\ ~sink_fails[1]
        /\ \E k \in 1..Len(cfg.custom) :
              cfg.custom[k].name = "copy" /\ cfg.custom[k].type = "type")
          => \E k \in 1..Len(cfg.custom) :
                /\ cfg.custom[k].name = "copy"
                /\ last.calls = <<[op |-> "type_text", arg |-> cfg.custom[k].action,
                                   modifiers |-> <<>>]>>

\* "activate copy" with a custom command named copy: the custom definition has run,
\* and the registry holds one copy and one type_text
C19_Witness ==
    /\ last.outcome = "command"
    /\ last.command_text = "copy"
    /\ Len(last.ran) = 1
    /\ last.ran[1].name = "copy"
    /\ Len(last.calls) = 1
    /\ last.calls[1].op = "type_text"
    /\ Cardinality({c \in 1..Len(commands) : commands[c].name \in {"copy", "type_text"}}) = 2

\* C20: a pattern without capture group matches an utterance iff the case-folded
\* pattern occurs in the case-folded text, in the registry scan of Command mode as
\* in the custom-command scan of Dictation mode: in either mode a handler runs
\* whenever such an occurrence exists, and a command that ran had a pattern that
\* occurs (or, in Command mode, a regular expression that matches).
C20_LiteralMatchIsCaseFolded ==
    /\ (last.outcome \in {"command", "failed", "no_match"})
          => /\ (\E c \in 1..Len(commands) : \E p \in 1..Len(commands[c].patterns) :
                    /\ ~Contains(commands[c].patterns[p], "(")
                    /\ Contains(Lower(last.command_text), Lower(commands[c].patterns[p])))
                   => last.ran # <<>>
             /\ last.ran # <<>>
                   => \E c \in 1..Len(commands) : \E p \in 1..Len(commands[c].patterns) :
                         /\ commands[c].name = last.ran[1].name
                         /\ IF Contains(commands[c].patterns[p], "(")
                            THEN RegexSearch(commands[c].patterns[p], last.command_text).matched
                            ELSE Contains(Lower(last.command_text),
                                          Lower(commands[c].patterns[p]))
    /\ (last.outcome \in {"custom", "typed"})
          => /\ (\E c \in 1..Len(commands) : \E p \in 1..Len(commands[c].patterns) :
                    /\ commands[c].category \in {"custom", "dictation"}
                    /\ ~Contains(commands[c].patterns[p], "(")
                    /\ Contains(Lower(last.text), Lower(commands[c].patterns[p])))
                   => last.ran # <<>>
             /\ last.ran # <<>>
                   => \E c \in 1..Len(commands) : \E p \in 1..Len(commands[c].patterns) :
                         /\ commands[c].name = last.ran[1].name
                         /\ Contains(Lower(last.text), Lower(commands[c].patterns[p]))

(***************************************************************************)
(* The volume gate, checked under VolSpec.                                 *)
(***************************************************************************)
\* C18: for every frame of signed 16-bit samples (empty, all zero, of one sample,
\* of extreme samples whose squares do not fit 16 or 32 bits, or with a stray byte)
\* _calculate_volume raises nothing and returns a finite value >= 0, which is 0 for
\* the empty frame.
C18_VolumeIsFiniteAndNonNegative ==
    gate_volume # NoVolume
        => /\ gate_volume.kind = "finite"
           /\ gate_volume.num.hi >= 0
           /\ gate_volume.num.lo >= 0
           /\ gate_volume.den > 0
           /\ gate_data.samples = <<>> => gate_volume.num = Float(0)

\* a gate_data of three extreme samples was measured: the sum of its squares is past 2^31
C18_Witness ==
    /\ gate_volume # NoVolume
    /\ Len(gate_data.samples) = MaxSamples
    /\ \A i \in 1..Len(gate_data.samples) : gate_data.samples[i] \in {0 - 32768, 32767}
    /\ gate_volume.kind = "finite"
    /\ gate_volume.num.hi >= 2

(***************************************************************************)
(* The recognition loop under the GUI, checked under LoopSpec.             *)
(***************************************************************************)
\* C12: a mode toggle from outside never takes effect between the start and the
\* end of one utterance's dispatch: while a process_command call is under way, no
\* step changes the mode flag.
C12_NoToggleDuringDispatch ==
    [][in_dispatch # {} => dictation_mode' = dictation_mode]_vars

\* C14: utterances are dispatched in the order in which they were finalized, each
\* at most once, and at most one process_command call is under way at any time:
\* the call for the next utterance starts only when the one before it has ended.
C14_DispatchIsFifoAndSequential ==
    /\ Cardinality(in_dispatch) <= 1
    /\ \A i \in DOMAIN dispatched : dispatched[i] \in 1..Len(emitted)
    /\ \A i, j \in DOMAIN dispatched : i < j => dispatched[i] < dispatched[j]
    /\ in_dispatch # {} => /\ pc = "dispatching"
                           /\ in_dispatch = {dispatched[Len(dispatched)]}

\* the second utterance is in dispatch after the first one's dispatch has waited
\* and ended
C14_Witness ==
    /\ Len(dispatched) = 2
    /\ in_dispatch = {2}
    /\ pc = "dispatching"

\* C15: stopping the session abandons the utterance in progress and stops the
\* acceptance of frames: no utterance emitted after the stop holds a frame that had
\* arrived before it, no utterance finalized before the stop is dispatched after
\* it, nothing is emitted or dispatched while the task is being cancelled, and once
\* the task has ended recording is off, the stream closed, the queue empty and no
\* dispatch under way, with the registry as built and the mode flag as the latest
\* dispatch or toggle left it.
C15_StopAbandonsUtterance ==
    /\ \A i \in DOMAIN emitted :
          i > stop_mark.utterances
              => \A k \in DOMAIN emitted[i] : emitted[i][k].n > stop_mark.frames
    /\ \A i \in DOMAIN dispatched :
          i > stop_mark.dispatched => dispatched[i] > stop_mark.utterances
    /\ task = "cancelling"
          => /\ Len(emitted) = stop_mark.utterances
             /\ Len(dispatched) = stop_mark.dispatched
    /\ task = "done"
          => /\ ~is_recording
             /\ ~stream_active
             /\ audio_queue = <<>>
             /\ in_dispatch = {}
    /\ commands = InitialRegistry(cfg.start_dictation_words, cfg.stop_dictation_words,
                                  cfg.custom)
    /\ dictation_mode = last.mode

\* listening was stopped in the middle of an utterance, then started again, and an
\* utterance of the new session has been emitted
C15_Witness ==
    /\ stop_mark.partial
    /\ stop_mark.frames > 0
    /\ is_listening
    /\ Len(emitted) > stop_mark.utterances

(***************************************************************************)
(* The recognition loop of main.py and the audio source, checked under     *)
(* LiveSpec.                                                               *)
(***************************************************************************)
\* C13: a frame that arrives from the capture device while a transcription is in
\* flight is accepted by the producer side: it is put in the queue.
C13_FramesDuringTranscriptionAreQueued ==
    [][(pc = "transcribing" /\ arrived' = arrived + 1)
          => Len(audio_queue') = Len(audio_queue) + 1]_vars

\* C16: after an audio fault in the middle of a capture the driver loop does not
\* stay in that capture: as long as the loop runs, a new capture session is
\* eventually started.
C16_FaultLeadsToNewSession ==
    \A s \in 1..(MaxSessions - 1) :
        (fault /\ sessions = s) ~> (sessions > s \/ task # "running")

(***************************************************************************)
(* Further properties of the command processor, checked under Spec.        *)
(***************************************************************************)
\* C21: in Dictation mode the custom-command step looks only at commands of
\* category "custom" or "dictation": for an utterance that reaches this step every
\* handler that runs belongs to such a command, and when no pattern of such a
\* command occurs in the text, nothing runs and the text is typed literally, even
\* if it matches a command of another category.
C21_DictationRunsOnlyCustomCategories ==
    (last.before /\ last.outcome \in {"custom", "typed"})
        => /\ \A i \in DOMAIN last.ran :
                 \E c \in 1..Len(commands) :
                     /\ commands[c].name = last.ran[i].name
                     /\ commands[c].category \in {"custom", "dictation"}
           /\ (~ \E c \in 1..Len(commands) : \E p \in 1..Len(commands[c].patterns) :
                     /\ commands[c].category \in {"custom", "dictation"}
                     /\ Contains(last.text, Lower(commands[c].patterns[p])))
                 => /\ last.outcome = "typed"
                    /\ last.ran = <<>>
                    /\ last.raised \/ last.calls = <<TypeText(last.text \o " ")>>

\* a text that holds a pattern of a command of another category, and no pattern of
\* a custom or dictation command, was typed in Dictation mode
C21_Witness ==
    /\ last.before
    /\ last.outcome = "typed"
    /\ last.ran = <<>>
    /\ last.calls = <<TypeText(last.text \o " ")>>
    /\ \E c \in 1..Len(commands) : \E p \in 1..Len(commands[c].patterns) :
           /\ commands[c].category \notin {"custom", "dictation"}
           /\ Contains(last.text, commands[c].patterns[p])

\* C22: wake-word stripping removes the first whole-word run of each configured
\* wake word from the utterance and nothing else: the command text is the
\* utterance's words without the first run of each wake word that occurs in it, in
\* their order, later occurrences included.
C22_StripsFirstRunOfEachWakeWord ==
    (~last.before /\ last.outcome \in {"command", "failed", "no_match"})
        => LET words == Split(last.text)
               first(k) == WakePositions(words, Split(cfg.wake_words[k]))
               removed == UNION {(Least(first(k)) + 1)..(Least(first(k)) +
                                                         Len(Split(cfg.wake_words[k]))) :
                                    k \in {j \in 1..Len(cfg.wake_words) : first(j) # {}}}
               kept == (1..Len(words)) \ removed
               nth(j) == CHOOSE i \in kept : Cardinality({x \in kept : x < i}) = j - 1
           IN  Split(last.command_text) = [j \in 1..Cardinality(kept) |-> words[nth(j)]]

\* C29: every word removed by wake-word stripping belongs to a whole-word run of a
\* configured wake word in the utterance as spoken: the command text is the
\* utterance without some words, each of which lies in such a run.
C29_RemovedWordsAreWakeWordRuns ==
    (~last.before /\ last.outcome \in {"command", "failed", "no_match"})
        => LET words == Split(last.text)
               in_run(i) == \E k \in 1..Len(cfg.wake_words) :
                                \E q \in WakePositions(words, Split(cfg.wake_words[k])) :
                                    i \in (q + 1)..(q + Len(Split(cfg.wake_words[k])))
           IN  \E kept \in SUBSET (1..Len(words)) :
                   /\ \A i \in (1..Len(words)) \ kept : in_run(i)
                   /\ Split(last.command_text) =
                          [j \in 1..Cardinality(kept) |->
                              words[CHOOSE i \in kept :
                                        Cardinality({x \in kept : x < i}) = j - 1]]

\* C24: the mode flag starts as Command in the processor (main.py sets Dictation
\* before its dictation loop starts) and changes only in a call that recognized a
\* start or stop dictation phrase, in one that carried out a press-key directive,
\* or by the toggle from outside: every other step leaves it as it was.
C24_ModeChangesOnlyByPhraseOrToggle ==
    /\ dictation_mode = (driver = "run_enhanced_dictation_mode")
    /\ [][dictation_mode' # dictation_mode
             => \/ last'.outcome \in {"toggle", "stop", "key"}
                \/ \E i \in DOMAIN last'.ran :
                       last'.ran[i].name \in {"start_dictation", "stop_dictation"}]_vars

\* Command mode was left by a start phrase under one of the loops of main.py
C24_Witness ==
    /\ last.outcome = "command"
    /\ ~last.before
    /\ dictation_mode
    /\ last.ran # <<>>
    /\ last.ran[1].name = "start_dictation"
    /\ driver # "gui"

\* C25: in Dictation mode, for every named key of the closed set, the phrases
\* "press <key>" and "hit <key>" give exactly one send_key request, for that key
\* and with no modifiers (when the sink does not raise).
C25_NamedKeyPhrasePressesThatKey ==
    \A verb \in {"press", "hit"} :
        \A key \in {"enter", "tab", "space", "escape", "backspace", "delete", "home",
                    "end", "up", "down", "left", "right", "page up", "page down",
                    "f5"} :
            (last.before /\ last.text = verb \o " " \o key /\ ~sink_fails[1])
                => last.calls = <<SendKey(key, <<>>)>>

(***************************************************************************)
(* Further properties of the capture, checked under SegSpec.               *)
(***************************************************************************)
\* C23: while capturing, a frame above the threshold resets the silence run: the
\* buffer holds the frames taken from the first active frame on (silent frames
\* before it are not buffered), silence_frames is the number of silent frames since
\* the last active one, and the capture is finalized exactly when that run k first
\* has k * chunk_size / sample_rate > silence_duration, strictly.
C23_FinalizesAtFirstLongSilenceRun ==
    pc \in {"recording", "finally", "stopping", "draining"}
        => LET active == {i \in DOMAIN consumed :
                             consumed[i].volume > audio.silence_threshold}
               run == Len(consumed) - (CHOOSE i \in active : \A k \in active : k <= i)
               long(k) == k * audio.chunk_size * 1000
                              > audio.silence_duration * audio.sample_rate
           IN  IF active = {}
               THEN audio_frames = <<>> /\ silence_frames = 0 /\ pc = "recording"
               ELSE /\ audio_frames = SubSeq(consumed, Least(active), Len(consumed))
                    /\ silence_frames = run
                    /\ pc # "recording" <=> long(run)
                    /\ run > 0 => ~long(run - 1)

\* a capture was finalized whose silent frames, two of them separated by an active
\* frame, add up to more than the last run, and whose last run but one frame lasted
\* exactly silence_duration
C23_Witness ==
    /\ pc = "finally"
    /\ \E i, j, k \in DOMAIN consumed :
           /\ i < j /\ j < k
           /\ consumed[i].volume > audio.silence_threshold
           /\ consumed[j].volume <= audio.silence_threshold
           /\ consumed[k].volume > audio.silence_threshold
    /\ (silence_frames - 1) * audio.chunk_size * 1000
           = audio.silence_duration * audio.sample_rate

\* C26: when silence_duration >= min_audio_length, every capture that finalizes
\* is emitted: what _record_audio_segment returns is the audio of all buffered
\* frames, and it is the utterance handed on last.
C26_FinalizedCaptureIsEmittedWhenSilenceCoversMinimum ==
    (pc = "returned" /\ audio.silence_duration >= audio.min_audio_length)
        => /\ audio_frames # <<>>
           /\ result = Segment(audio_frames)
           /\ emitted # <<>>
           /\ emitted[Len(emitted)] = audio_frames

\* a capture of one active frame and the silence after it was emitted, with
\* silence_duration equal to min_audio_length
C26_Witness ==
    /\ pc = "returned"
    /\ audio.silence_duration = audio.min_audio_length
    /\ result.audio
    /\ Cardinality({i \in DOMAIN audio_frames :
                       audio_frames[i].volume > audio.silence_threshold}) = 1

\* C28: in Command mode, an utterance that is a wake word followed by exactly a literal
\* pattern of a default command runs that command: no command registered earlier
\* matches the pattern first.
C28_LiteralPatternRunsItsOwnCommand ==
    \A c \in 1..Len(commands) : \A p \in 1..Len(commands[c].patterns) :
        (/\ \E d \in 1..Len(DefaultRegistrations(cfg.start_dictation_words,
                                                  cfg.stop_dictation_words)) :
                DefaultRegistrations(cfg.start_dictation_words,
                                     cfg.stop_dictation_words)[d] = commands[c]
         /\ ~IsRegex(commands[c].patterns[p])
         /\ ~last.before
         /\ last.outcome \in {"command", "failed", "no_match"}
         /\ last.command_text = commands[c].patterns[p])
        => (last.ran # <<>> /\ last.ran[1].name = commands[c].name)

(***************************************************************************)
(* Properties of the capture thread against the cleanup, checked under     *)
(* RaceSpec.                                                               *)
(***************************************************************************)

\* C27: every capture starts with an empty queue and an empty buffer, and however the
\* callback's test and put interleave with the cleanup (is_recording reset, stream
\* stopped, queue drained), every frame appended to an utterance was delivered during
\* that utterance's own capture.
C27_NoFrameFromBeforeTheSession ==
    /\ pc \in {"idle", "returned", "opened"} => audio_queue = <<>> /\ pending = <<>>
    /\ pc = "recording" /\ consumed = <<>> => audio_frames = <<>>
    /\ pc \in {"recording", "finally", "stopping", "draining"}
           => \A i \in DOMAIN audio_frames : audio_frames[i].session = sessions
    /\ pc = "returned" /\ result.audio
           => \A i \in DOMAIN result.frames : result.frames[i].session = sessions

\* A second capture has appended a frame after the first one was cleaned up and emitted.
C27_Witness ==
    /\ sessions = 2
    /\ pc = "recording"
    /\ audio_frames # <<>>
    /\ emitted # <<>>

(***************************************************************************)
(* A property of the capture loop on the event loop, checked under         *)
(* LoopSpec.                                                               *)
(***************************************************************************)

\* C30: the capture loop does not hold the event loop for as many frames as arrive:
\* whatever the arrival pattern, it has waited, letting the GUI's handlers run, before
\* it has taken MaxFrames frames from the queue.
C30_CaptureLoopSuspendsWithinBound ==
    (task = "running" /\ pc = "recording" /\ ~suspended) => Len(consumed) < MaxFrames

====
